---- MODULE Spec2Model ----
(***************************************************************************)
(* BlogBuilder AI: the word validator, the generate and create-blog API    *)
(* handlers, the home page that submits words, and the blogs table they    *)
(* write to.  A string is a sequence of one-character strings.  A handler  *)
(* is cut at its awaits: each action runs the code between two awaits.     *)
(***************************************************************************)
EXTENDS Integers, Sequences, FiniteSets, TLC

VARIABLES
    reqs,     \* the HTTP requests to the API routes, by request number
    blogs,    \* the rows of table blogs
    env,      \* the deployment: how the table was set up, the provider's API key
    nextId,   \* the next row id the table hands out (uuid_generate_v4)
    home,     \* the React state of the home page
    admin     \* the React state of the admin page

vars == <<reqs, blogs, env, nextId, home, admin>>

\* ------------------------------------------------------------------ bounds

\* Requests the system specification follows.
MaxReq == 2
\* Longest word enumerated character by character.
MaxWordLen == 3
\* Letters-only words are enumerated up to WordMax + LongExtra letters.
LongExtra == 2
\* Rows the table may hold before the first request.
MaxSeed == 2
\* The deletes the admin page issues in a behaviour of the system.
MaxDeletes == 1

\* --------------------------------------------------------------- strings

LowerSeq == <<"a", "b", "c", "d", "e", "f", "g", "h", "i", "j", "k", "l", "m",
              "n", "o", "p", "q", "r", "s", "t", "u", "v", "w", "x", "y", "z">>
UpperSeq == <<"A", "B", "C", "D", "E", "F", "G", "H", "I", "J", "K", "L", "M",
              "N", "O", "P", "Q", "R", "S", "T", "U", "V", "W", "X", "Y", "Z">>
DigitSeq == <<"0", "1", "2", "3", "4", "5", "6", "7", "8", "9">>
LowerLetters == {LowerSeq[i] : i \in 1..Len(LowerSeq)}
UpperLetters == {UpperSeq[i] : i \in 1..Len(UpperSeq)}
Digits == {DigitSeq[i] : i \in 1..Len(DigitSeq)}

\* String.prototype.trim's white space that the model's alphabet holds.
IsWs(c) == c \in {" ", "\t", "\n"}

IsLetter(c) == c \in LowerLetters \cup UpperLetters

ToLowerChar(c) ==
    IF c \in UpperLetters
    THEN LowerSeq[CHOOSE i \in 1..Len(UpperSeq) : UpperSeq[i] = c]
    ELSE c

toLowerCase(s) == [i \in 1..Len(s) |-> ToLowerChar(s[i])]

RECURSIVE TrimStart(_)
TrimStart(s) ==
    IF s # <<>> /\ IsWs(Head(s)) THEN TrimStart(Tail(s)) ELSE s

RECURSIVE TrimEnd(_)
TrimEnd(s) ==
    IF s # <<>> /\ IsWs(s[Len(s)]) THEN TrimEnd(SubSeq(s, 1, Len(s) - 1)) ELSE s

trim(s) == TrimEnd(TrimStart(s))

includes(s, c) == \E i \in 1..Len(s) : s[i] = c

\* /^[a-zA-Z]+$/.test(s)
LettersOnly(s) == Len(s) >= 1 /\ \A i \in 1..Len(s) : IsLetter(s[i])

Rep(c, n) == [i \in 1..n |-> c]

RECURSIVE SeqsUpTo(_, _)
SeqsUpTo(S, n) ==
    IF n = 0 THEN {<<>>}
    ELSE LET shorter == SeqsUpTo(S, n - 1)
         IN  shorter \cup {Append(s, c) : s \in {t \in shorter : Len(t) = n - 1}, c \in S}

\* ------------------------------------------------------- the word validator

WordMin == 2
WordMax == 20

\* A value of a field of req.body: undefined, a number, a string or an array.
Undef == [t |-> "undef", n |-> 0, s |-> <<>>, a |-> <<>>]
Num(k) == [t |-> "num", n |-> k, s |-> <<>>, a |-> <<>>]
Str(s) == [t |-> "str", n |-> 0, s |-> s, a |-> <<>>]
Arr(a) == [t |-> "arr", n |-> 0, s |-> <<>>, a |-> a]

\* JavaScript's !word
Falsy(w) ==
    \/ w.t = "undef"
    \/ w.t = "num" /\ w.n = 0
    \/ w.t = "str" /\ w.s = <<>>

\* The five checks of the validation chain, on the trimmed word.
CheckEmpty(t) == t = <<>>
CheckMulti(t) == includes(t, " ")
CheckNonLetter(t) == ~LettersOnly(t)
CheckShort(t) == Len(t) < WordMin
CheckLong(t) == Len(t) > WordMax

\* The mutant: the character check moved in front of the space check.
ServerValidate_CharFirst(w) ==
    IF Falsy(w) \/ w.t # "str" THEN [reason |-> "required", trimmed |-> <<>>]
    ELSE LET t == trim(w.s)
         IN  [reason |-> IF CheckEmpty(t) THEN "empty"
                         ELSE IF CheckNonLetter(t) THEN "nonletter"
                         ELSE IF CheckMulti(t) THEN "multi"
                         ELSE IF CheckShort(t) THEN "short"
                         ELSE IF CheckLong(t) THEN "long"
                         ELSE "ok",
              trimmed |-> t]

\* The mutant: the length limits off by one (<= 2, >= 20).
ServerValidate_OffByOne(w) ==
    IF Falsy(w) \/ w.t # "str" THEN [reason |-> "required", trimmed |-> <<>>]
    ELSE LET t == trim(w.s)
         IN  [reason |-> IF CheckEmpty(t) THEN "empty"
                         ELSE IF CheckMulti(t) THEN "multi"
                         ELSE IF CheckNonLetter(t) THEN "nonletter"
                         ELSE IF Len(t) <= WordMin THEN "short"
                         ELSE IF Len(t) >= WordMax THEN "long"
                         ELSE "ok",
              trimmed |-> t]

\* The mutant: the space check left out.
ServerValidate_NoSpaceCheck(w) ==
    IF Falsy(w) \/ w.t # "str" THEN [reason |-> "required", trimmed |-> <<>>]
    ELSE LET t == trim(w.s)
         IN  [reason |-> IF CheckEmpty(t) THEN "empty"
                         ELSE IF CheckNonLetter(t) THEN "nonletter"
                         ELSE IF CheckShort(t) THEN "short"
                         ELSE IF CheckLong(t) THEN "long"
                         ELSE "ok",
              trimmed |-> t]

\* generate.ts, lines 16-41: the reason of the 400 response ("ok": none) and
\* the trimmed word the handler goes on with.
ServerValidate(w) ==
    IF Falsy(w) \/ w.t # "str" THEN [reason |-> "required", trimmed |-> <<>>]
    ELSE LET t == trim(w.s)
         IN  [reason |-> IF CheckEmpty(t) THEN "empty"
                         ELSE IF CheckMulti(t) THEN "multi"
                         ELSE IF CheckNonLetter(t) THEN "nonletter"
                         ELSE IF CheckShort(t) THEN "short"
                         ELSE IF CheckLong(t) THEN "long"
                         ELSE "ok",
              trimmed |-> t]

\* The message of each rejection.
ValidationMessage(reason) ==
    CASE reason = "required" -> "Word is required"
      [] reason = "empty" -> "Word cannot be empty"
      [] reason = "multi" -> "Please enter only ONE word (no spaces allowed)"
      [] reason = "nonletter" -> "Please enter only letters (no numbers or special characters)"
      [] reason = "short" -> "Word must be at least 2 characters long"
      [] reason = "long" -> "Word must be less than 20 characters long"
      [] OTHER -> ""

\* The home page's validateWord: what it returns and the validationError it sets.
validateWord(input) ==
    LET trimmed == trim(input)
    IN  IF trimmed = <<>> THEN [ok |-> FALSE, error |-> ""]
        ELSE IF includes(trimmed, " ")
             THEN [ok |-> FALSE, error |-> "Please enter only ONE word"]
        ELSE IF ~LettersOnly(trimmed)
             THEN [ok |-> FALSE, error |-> "Please enter only letters"]
        ELSE [ok |-> TRUE, error |-> ""]

\* ------------------------------------------------- title, slug and rendering

\* s.split(sep), for a separator of one character
RECURSIVE splitOn(_, _)
splitOn(s, sep) ==
    IF ~includes(s, sep) THEN <<s>>
    ELSE LET i == CHOOSE k \in 1..Len(s) :
                      s[k] = sep /\ \A j \in 1..(k - 1) : s[j] # sep
         IN  <<SubSeq(s, 1, i - 1)>> \o splitOn(SubSeq(s, i + 1, Len(s)), sep)

\* text.split('\n')
split(s) == splitOn(s, "\n")

\* lines.filter(line => line.trim())
RECURSIVE NonBlank(_)
NonBlank(ls) ==
    IF ls = <<>> THEN <<>>
    ELSE IF trim(Head(ls)) = <<>> THEN NonBlank(Tail(ls))
    ELSE <<Head(ls)>> \o NonBlank(Tail(ls))

RECURSIVE DropHashes(_)
DropHashes(s) ==
    IF s # <<>> /\ Head(s) = "#" THEN DropHashes(Tail(s)) ELSE s

\* line.replace(/^#+\s*/, '')
StripHeading(line) ==
    IF line # <<>> /\ Head(line) = "#" THEN TrimStart(DropHashes(line)) ELSE line

BlogAbout == <<"B", "l", "o", "g", " ", "a", "b", "o", "u", "t", " ">>

\* The mutant: the first line is taken as it is left by the replace, without
\* the fallback.
ExtractTitle_NoFallback(text, word) ==
    LET lines == NonBlank(split(text))
    IN  IF lines = <<>> THEN <<>> ELSE StripHeading(lines[1])

\* lines[0]?.replace(/^#+\s*/, '') || `Blog about ${word}`
ExtractTitle(text, word) ==
    LET lines == NonBlank(split(text))
        first == IF lines = <<>> THEN <<>> ELSE StripHeading(lines[1])
    IN  IF first = <<>> THEN BlogAbout \o word ELSE first

IsAlnum(c) == IsLetter(c) \/ c \in Digits

\* slug.replace(/[^A-Za-z0-9\s]/g, '')
RECURSIVE StrictChars(_)
StrictChars(s) ==
    IF s = <<>> THEN <<>>
    ELSE IF IsAlnum(Head(s)) \/ IsWs(Head(s)) THEN <<Head(s)>> \o StrictChars(Tail(s))
    ELSE StrictChars(Tail(s))

\* slug.replace(/\s+/g, '-')
RECURSIVE Hyphenate(_)
Hyphenate(s) ==
    IF s = <<>> THEN <<>>
    ELSE IF IsWs(Head(s)) THEN <<"-">> \o Hyphenate(TrimStart(s))
    ELSE <<Head(s)>> \o Hyphenate(Tail(s))

\* slugify(title, { lower: true, strict: true }): a '-' counts as a space, every
\* character that is no letter, digit or white space is removed, the rest is
\* trimmed, each run of white space becomes one '-', and the result is lowercased.
slugify(title) ==
    LET spaced == [i \in 1..Len(title) |-> IF title[i] = "-" THEN " " ELSE title[i]]
        kept == StrictChars(spaced)
    IN  toLowerCase(Hyphenate(trim(kept)))

\* String(counter)
RECURSIVE NumToStr(_)
NumToStr(n) ==
    IF n < 10 THEN <<DigitSeq[n + 1]>>
    ELSE NumToStr(n \div 10) \o <<DigitSeq[(n % 10) + 1]>>

RECURSIVE RenderLines(_)
RenderLines(ls) ==
    IF ls = <<>> THEN <<>>
    ELSE LET l == Head(ls)
         IN  (IF l # <<>> /\ Head(l) = "#" /\ StripHeading(l) # l
              THEN <<"<h>">> \o trim(StripHeading(l)) \o <<"</h>">>
              ELSE <<"<p>">> \o trim(l) \o <<"</p>">>)
             \o RenderLines(Tail(ls))

\* marked(markdown): one block per non-blank line, a heading for a line that
\* starts with '#', a paragraph otherwise.
marked(md) == RenderLines(NonBlank(split(md)))

\* ------------------------------------------------------------ the blogs table

\* The actors: auth.uid() of a database call; "" is the anon key with no session.
Users == {"u1", "u2"}
Anon == ""

\* `${slug}%` matched by LIKE: slug is a prefix.
IsPrefix(p, s) == Len(p) <= Len(s) /\ SubSeq(s, 1, Len(p)) = p

\* The row a payload becomes.
StoredRow(payload, id) ==
    [id |-> id, title |-> payload.title, slug |-> payload.slug,
     content_md |-> payload.content_md, content_html |-> payload.content_html,
     tags |-> payload.tags,
     user_id |-> IF payload.withUserId THEN payload.user_id ELSE ""]

\* The mutant: a table without the unique constraint on slug.
DbInsert_NoUnique(table, payload, uid, mode, id) ==
    IF mode = "legacy" /\ payload.withUserId
    THEN [error |-> "PGRST204", table |-> table, id |-> 0]
    ELSE IF mode = "rls" /\ (uid = "" \/ ~payload.withUserId \/ payload.user_id # uid)
    THEN [error |-> "42501", table |-> table, id |-> 0]
    ELSE [error |-> "", table |-> table \cup {StoredRow(payload, id)}, id |-> id]

\* insert into blogs: PostgREST refuses a column its schema lacks (PGRST204),
\* the insert policy wants auth.uid() = user_id (42501), and slug is unique (23505).
DbInsert(table, payload, uid, mode, id) ==
    IF mode = "legacy" /\ payload.withUserId
    THEN [error |-> "PGRST204", table |-> table, id |-> 0]
    ELSE IF mode = "rls" /\ (uid = "" \/ ~payload.withUserId \/ payload.user_id # uid)
    THEN [error |-> "42501", table |-> table, id |-> 0]
    ELSE IF \E b \in table : b.slug = payload.slug
    THEN [error |-> "23505", table |-> table, id |-> 0]
    ELSE [error |-> "", table |-> table \cup {StoredRow(payload, id)}, id |-> id]

\* select slug from blogs where slug like `${slug}%` (public read)
DbSelectSlugsLike(table, prefix) == {b.slug : b \in {x \in table : IsPrefix(prefix, x.slug)}}

\* The mutant: a delete that no policy restricts.
DbDelete_NoPolicy(table, id, uid, mode) ==
    {b \in table : b.id # id}

\* delete from blogs where id = ...: the delete policy hides the rows of others.
DbDelete(table, id, uid, mode) ==
    {b \in table : ~(b.id = id /\ (mode # "rls" \/ (uid # "" /\ b.user_id = uid)))}

\* ------------------------------------------------------ the authentication gate

Bearer == "Bearer "

\* The Authorization headers; <<>> is a request without one.
TokenOf(u) == <<"token-of-" \o u>>

\* authHeader.replace('Bearer ', ''): the first occurrence is removed.
RECURSIVE replaceBearer(_)
replaceBearer(h) ==
    IF h = <<>> THEN <<>>
    ELSE IF Head(h) = Bearer THEN Tail(h)
    ELSE <<Head(h)>> \o replaceBearer(Tail(h))

\* supabase.auth.getUser(token): the identity service knows the tokens of its
\* users, answers { user: null } without an error for the token "ghost", and
\* with an error for every other token.
getUser(token) ==
    IF \E u \in Users : token = TokenOf(u)
    THEN [user |-> CHOOSE u \in Users : token = TokenOf(u), error |-> FALSE]
    ELSE IF token = <<"ghost">> THEN [user |-> "", error |-> FALSE]
    ELSE [user |-> "", error |-> TRUE]

\* ------------------------------------------------------------------ requests

Reqs == 1..MaxReq

NoPayload ==
    [title |-> <<>>, slug |-> <<>>, content_md |-> <<>>, content_html |-> <<>>,
     tags |-> <<>>, user_id |-> "", withUserId |-> FALSE]

\* A request slot nobody has used yet.
NoReq ==
    [kind |-> "none", pc |-> "idle", origin |-> "", method |-> "",
     bodyNull |-> FALSE, word |-> Undef, title |-> Undef, content |-> Undef,
     tags |-> Undef, header |-> <<>>, token |-> <<>>, trimmedWord |-> <<>>,
     userId |-> "", prompt |-> <<>>, slug |-> <<>>, existing |-> {},
     payload |-> NoPayload, status |-> 0, message |-> "", dbError |-> "",
     blog |-> 0, authCalls |-> 0, aiCalls |-> 0, selectCalls |-> 0,
     insertCalls |-> 0, answer |-> ""]

\* res.status(code).json({ message }) and the handler returns.
Respond(q, code, msg) ==
    [q EXCEPT !.pc = "done", !.status = code, !.message = msg, !.payload = NoPayload]

\* An exception nothing catches: the handler ends without a response.
Throw(q) == [q EXCEPT !.pc = "threw", !.payload = NoPayload]

AuthRequired == "Authentication required. Please sign in to create blogs."

\* A POST, or another method, arrives at /api/generate.
HttpGenerate(r, origin, method, bodyNull, word, header) ==
    /\ reqs[r].kind = "none"
    /\ reqs' = [reqs EXCEPT ![r] =
                 [NoReq EXCEPT !.kind = "generate", !.pc = "received",
                               !.origin = origin, !.method = method,
                               !.bodyNull = bodyNull, !.word = word,
                               !.header = header]]
    /\ UNCHANGED <<blogs, env, nextId, home, admin>>

\* The mutant: the word is validated only after the identity service is asked.
GenHandleStep_AuthFirst(q) ==
    IF q.method # "POST" THEN Respond(q, 405, "Method not allowed")
    ELSE IF q.bodyNull THEN Throw(q)
    ELSE IF q.header # <<>> /\ replaceBearer(q.header) # <<>>
         THEN [q EXCEPT !.pc = "auth", !.token = replaceBearer(q.header),
                        !.trimmedWord = ServerValidate(q.word).trimmed,
                        !.authCalls = @ + 1]
    ELSE LET v == ServerValidate(q.word)
         IN  IF v.reason # "ok" THEN Respond(q, 400, ValidationMessage(v.reason))
             ELSE Respond(q, 401, AuthRequired)

\* generate.ts, lines 10-55: from the method check to the call of getUser.
GenHandleStep(q) ==
    IF q.method # "POST" THEN Respond(q, 405, "Method not allowed")
    ELSE IF q.bodyNull THEN Throw(q)
    ELSE LET v == ServerValidate(q.word)
         IN  IF v.reason # "ok" THEN Respond(q, 400, ValidationMessage(v.reason))
             ELSE IF q.header = <<>>
                  THEN Respond([q EXCEPT !.trimmedWord = v.trimmed], 401, AuthRequired)
             ELSE IF replaceBearer(q.header) = <<>>
                  THEN Respond([q EXCEPT !.trimmedWord = v.trimmed], 401, AuthRequired)
             ELSE [q EXCEPT !.pc = "auth", !.trimmedWord = v.trimmed,
                            !.token = replaceBearer(q.header),
                            !.authCalls = @ + 1]

GenHandle(r) ==
    /\ reqs[r].kind = "generate"
    /\ reqs[r].pc = "received"
    /\ reqs' = [reqs EXCEPT ![r] = GenHandleStep(reqs[r])]
    /\ UNCHANGED <<blogs, env, nextId, home, admin>>

\* The mutant: a request the identity service refuses goes on as anonymous.
GenAuthStep_Lenient(q, e) ==
    LET res == getUser(q.token)
    IN  IF ~e.apiKey
        THEN Respond([q EXCEPT !.userId = res.user], 500, "Failed to generate blog")
        ELSE [q EXCEPT !.pc = "ai", !.userId = res.user, !.prompt = q.trimmedWord,
                       !.aiCalls = @ + 1]

\* The mutant: generateBlogWithAI does not look at the API key.
GenAuthStep_NoKeyCheck(q, e) ==
    LET res == getUser(q.token)
    IN  IF res.error \/ res.user = "" THEN Respond(q, 401, AuthRequired)
        ELSE [q EXCEPT !.pc = "ai", !.userId = res.user, !.prompt = q.trimmedWord,
                       !.aiCalls = @ + 1]

\* generate.ts, lines 55-63 and 106-113: the answer of getUser, then
\* generateBlogWithAI up to its fetch.
GenAuthStep(q, e) ==
    LET res == getUser(q.token)
    IN  IF res.error \/ res.user = "" THEN Respond(q, 401, AuthRequired)
        ELSE IF ~e.apiKey
             THEN Respond([q EXCEPT !.userId = res.user], 500, "Failed to generate blog")
        ELSE [q EXCEPT !.pc = "ai", !.userId = res.user, !.prompt = q.trimmedWord,
                       !.aiCalls = @ + 1]

GenAuth(r) ==
    /\ reqs[r].kind = "generate"
    /\ reqs[r].pc = "auth"
    /\ reqs' = [reqs EXCEPT ![r] = GenAuthStep(reqs[r], env)]
    /\ UNCHANGED <<blogs, env, nextId, home, admin>>

\* What the completion provider may answer: a non-success status, a success
\* without choices[0].message, a message without content, a message with text.
ProviderError == [ok |-> FALSE, hasMessage |-> FALSE, hasContent |-> FALSE, content |-> <<>>]
ProviderMalformed == [ok |-> TRUE, hasMessage |-> FALSE, hasContent |-> FALSE, content |-> <<>>]
ProviderNoContent == [ok |-> TRUE, hasMessage |-> TRUE, hasContent |-> FALSE, content |-> <<>>]
ProviderText(t) == [ok |-> TRUE, hasMessage |-> TRUE, hasContent |-> TRUE, content |-> t]

\* Which of the four the provider answered.
AnswerKind(resp) ==
    IF ~resp.ok THEN "error"
    ELSE IF ~resp.hasMessage THEN "malformed"
    ELSE IF ~resp.hasContent THEN "nocontent"
    ELSE "text"

\* The mutant: the HTML is rendered from the title, not from the stored text.
GenPayload_HtmlOfTitle(q, text) ==
    LET title == ExtractTitle(text, q.trimmedWord)
    IN  [title |-> title, slug |-> slugify(title), content_md |-> text,
         content_html |-> marked(title),
         tags |-> <<toLowerCase(q.trimmedWord), <<"ai-generated">>>>,
         user_id |-> q.userId, withUserId |-> TRUE]

\* The mutant: the word is the first tag in the casing it was sent in.
GenPayload_TagAsSent(q, text) ==
    LET title == ExtractTitle(text, q.trimmedWord)
    IN  [title |-> title, slug |-> slugify(title), content_md |-> text,
         content_html |-> marked(text),
         tags |-> <<q.trimmedWord, <<"ai-generated">>>>,
         user_id |-> q.userId, withUserId |-> TRUE]

\* generate.ts, lines 65-92: the insert payload made from the generated text.
GenPayload(q, text) ==
    LET title == ExtractTitle(text, q.trimmedWord)
    IN  [title |-> title, slug |-> slugify(title), content_md |-> text,
         content_html |-> marked(text),
         tags |-> <<toLowerCase(q.trimmedWord), <<"ai-generated">>>>,
         user_id |-> q.userId, withUserId |-> TRUE]

\* The mutant: the provider's status and message are not looked at, the
\* content of an answer without text is the empty text.
GenCompletionStep_AnyAnswer(q, resp) ==
    LET p == GenPayload(q, resp.content)
    IN  [q EXCEPT !.pc = "insert", !.payload = p, !.slug = p.slug,
                   !.insertCalls = @ + 1, !.answer = AnswerKind(resp)]

\* generate.ts, lines 187-198 and 65-92: the provider's answer, then the
\* payload and the call of insert.
GenCompletionStep(q, resp) ==
    IF ~resp.ok \/ ~resp.hasMessage \/ ~resp.hasContent
    THEN Respond([q EXCEPT !.answer = AnswerKind(resp)], 500, "Failed to generate blog")
    ELSE LET p == GenPayload(q, resp.content)
         IN  [q EXCEPT !.pc = "insert", !.payload = p, !.slug = p.slug,
                        !.insertCalls = @ + 1, !.answer = AnswerKind(resp)]

GenCompletion(r, resp) ==
    /\ reqs[r].kind = "generate"
    /\ reqs[r].pc = "ai"
    /\ reqs' = [reqs EXCEPT ![r] = GenCompletionStep(reqs[r], resp)]
    /\ UNCHANGED <<blogs, env, nextId, home, admin>>

\* generate.ts, lines 79-99: the table runs the insert; the handler answers.
GenInsert(r) ==
    /\ reqs[r].kind = "generate"
    /\ reqs[r].pc = "insert"
    /\ LET q == reqs[r]
           res == DbInsert(blogs, q.payload, Anon, env.db, nextId)
       IN  /\ blogs' = res.table
           /\ nextId' = IF res.error = "" THEN nextId + 1 ELSE nextId
           /\ reqs' = [reqs EXCEPT ![r] =
                        IF res.error # ""
                        THEN Respond([q EXCEPT !.dbError = res.error], 500, "Failed to save blog")
                        ELSE Respond([q EXCEPT !.blog = res.id], 200, "")]
    /\ UNCHANGED <<env, home, admin>>

\* ------------------------------------------------------------- the home page

\* handleWordChange: the input is disabled while a blog is generated.
HomeWordChange(value) ==
    /\ ~home.isGenerating
    /\ home' = [home EXCEPT !.word = value,
                            !.validationError = validateWord(value).error]
    /\ UNCHANGED <<reqs, blogs, env, nextId, admin>>

\* The button's disabled attribute.
ButtonDisabled ==
    \/ home.isGenerating
    \/ trim(home.word) = <<>>
    \/ home.validationError # ""
    \/ home.user = ""

\* generateBlog, to its fetch of /api/generate.
HomeGenerateBlog(r) ==
    /\ ~ButtonDisabled
    /\ LET trimmedWord == trim(home.word)
           v == validateWord(trimmedWord)
       IN  IF trimmedWord = <<>> \/ ~v.ok
           THEN /\ home' = [home EXCEPT !.validationError = v.error]
                /\ UNCHANGED reqs
           ELSE /\ reqs[r].kind = "none"
                /\ home' = [home EXCEPT !.validationError = v.error,
                                        !.isGenerating = TRUE]
                /\ reqs' = [reqs EXCEPT ![r] =
                             [NoReq EXCEPT !.kind = "generate", !.pc = "received",
                                           !.origin = "home", !.method = "POST",
                                           !.word = Str(trimmedWord),
                                           !.header = <<Bearer>> \o TokenOf(home.user)]]
    /\ UNCHANGED <<blogs, env, nextId, admin>>

\* generateBlog, from the response of its fetch.
HomeResponse(r) ==
    /\ home.isGenerating
    /\ reqs[r].origin = "home"
    /\ reqs[r].pc \in {"done", "threw"}
    /\ home' = IF reqs[r].status = 200
               THEN [home EXCEPT !.generatedBlog = reqs[r].blog, !.word = <<>>,
                                 !.isGenerating = FALSE]
               ELSE [home EXCEPT !.alert = reqs[r].message, !.isGenerating = FALSE]
    /\ reqs' = [reqs EXCEPT ![r].origin = "home-done"]
    /\ UNCHANGED <<blogs, env, nextId, admin>>

\* ------------------------------------------------------ the initial states

DbModes == {"rls", "open", "legacy"}

SeedBase == <<"a", "-", "b">>

\* The i-th row the table may hold at the start: a-b, a-b-1, a-b-2, ...
SeedRow(i) ==
    [id |-> i, title |-> <<"a", " ", "B">>,
     slug |-> IF i = 1 THEN SeedBase ELSE SeedBase \o <<"-">> \o NumToStr(i - 1),
     content_md |-> <<"x">>, content_html |-> marked(<<"x">>),
     tags |-> <<<<"manual">>>>,
     user_id |-> IF i % 2 = 1 THEN "u1" ELSE "u2"]

SeedTable(n) == {SeedRow(i) : i \in 1..n}

AdminInit == [user |-> "u1", blogs |-> {}, isLoading |-> FALSE, alert |-> "", deletes |-> 0]

HomeInit(u) ==
    [word |-> <<>>, validationError |-> "", user |-> u, isGenerating |-> FALSE,
     generatedBlog |-> 0, alert |-> ""]

\* ------------------------------------------- one request to /api/generate

WordChars == {"a", "B", " ", "\t", "1"}

\* The words a client may type or post: every string of at most MaxWordLen
\* characters, and the letters-only words around the length limit, also with
\* a space after them.
LongWords ==
    UNION {{Rep("a", n), <<"B">> \o Rep("a", n - 1), Rep("a", n) \o <<" ">>} :
           n \in (WordMax - 1)..(WordMax + LongExtra)}

Words == SeqsUpTo(WordChars, MaxWordLen) \cup LongWords

WordValues == {Undef, Num(0), Num(7)} \cup {Str(w) : w \in Words}

Headers ==
    {<<>>, <<Bearer>>, <<"ghost">>, <<Bearer, "bad">>, <<Bearer, "ghost">>}
    \cup {<<Bearer>> \o TokenOf(u) : u \in Users}
    \cup {TokenOf(u) : u \in Users}

Texts ==
    {<<"#", " ", "a", " ", "B", "\n", "x">>, <<"a", "-", "b">>, <<"#">>, <<"\n">>,
     <<"\n", "#", "#", " ", "a">>}

ProviderAnswers ==
    {ProviderError, ProviderMalformed, ProviderNoContent} \cup {ProviderText(t) : t \in Texts}

\* What a client other than the home page may send: any word with any header,
\* another method, a body that is JSON null.
HttpInputs ==
    {[method |-> "POST", bodyNull |-> FALSE, word |-> w, header |-> h] :
        w \in WordValues, h \in Headers}
    \cup {[method |-> "GET", bodyNull |-> FALSE, word |-> Undef, header |-> <<>>],
          [method |-> "POST", bodyNull |-> TRUE, word |-> Undef, header |-> <<>>]}

InitGen ==
    /\ reqs = [r \in Reqs |-> NoReq]
    /\ env \in [db : DbModes, apiKey : BOOLEAN]
    /\ \E n \in {0, MaxSeed} : blogs = SeedTable(n) /\ nextId = n + 1
    /\ \E u \in {"", "u1"} : home = HomeInit(u)
    /\ admin = AdminInit

NextGen ==
    \/ /\ reqs[1].kind = "none"
       /\ home.word = <<>>
       /\ \E in \in HttpInputs :
              HttpGenerate(1, "http", in.method, in.bodyNull, in.word, in.header)
    \/ GenHandle(1)
    \/ GenAuth(1)
    \/ \E resp \in ProviderAnswers : GenCompletion(1, resp)
    \/ GenInsert(1)
    \/ /\ reqs[1].kind = "none"
       /\ home.word = <<>>
       /\ \E v \in Words : HomeWordChange(v)
    \/ HomeGenerateBlog(1)
    \/ HomeResponse(1)

SpecGen == InitGen /\ [][NextGen]_vars

\* ------------------------------------------------------- /api/create-blog

\* create-blog, lines 57-66: the first of slug, slug-1, slug-2, ... that the
\* prefix query did not return.
RECURSIVE WhileTaken(_, _, _, _)
WhileTaken(slug, existingSlugs, newSlug, counter) ==
    IF newSlug \in existingSlugs
    THEN WhileTaken(slug, existingSlugs, slug \o <<"-">> \o NumToStr(counter), counter + 1)
    ELSE newSlug

\* The mutant: the counter starts at 0.
UniqueSlug_FromZero(slug, existingSlugs) ==
    IF existingSlugs # {} THEN WhileTaken(slug, existingSlugs, slug, 0) ELSE slug

UniqueSlug(slug, existingSlugs) ==
    IF existingSlugs # {} THEN WhileTaken(slug, existingSlugs, slug, 1) ELSE slug

RECURSIVE TrimAll(_)
TrimAll(ss) ==
    IF ss = <<>> THEN <<>>
    ELSE LET t == trim(Head(ss))
         IN  (IF t = <<>> THEN <<>> ELSE <<t>>) \o TrimAll(Tail(ss))

\* create-blog, lines 74-79: the tags as an array, with 'manual' pushed.
ProcessTags(tags) ==
    (IF tags.t = "arr" THEN tags.a
     ELSE IF tags.t = "str" THEN TrimAll(splitOn(tags.s, ","))
     ELSE <<>>) \o <<<<"manual">>>>

\* A POST, or another method, arrives at /api/create-blog.
HttpCreate(r, method, bodyNull, title, content, tags, header) ==
    /\ reqs[r].kind = "none"
    /\ reqs' = [reqs EXCEPT ![r] =
                 [NoReq EXCEPT !.kind = "create", !.pc = "received",
                               !.origin = "http", !.method = method,
                               !.bodyNull = bodyNull, !.title = title,
                               !.content = content, !.tags = tags,
                               !.header = header]]
    /\ UNCHANGED <<blogs, env, nextId, home, admin>>

\* create-blog, lines 10-34: from the method check to the call of getUser.
CreateHandleStep(q) ==
    IF q.method # "POST" THEN Respond(q, 405, "Method not allowed")
    ELSE IF q.bodyNull THEN Throw(q)
    ELSE IF Falsy(q.title) \/ Falsy(q.content)
         THEN Respond(q, 400, "Title and content are required")
    ELSE IF q.header = <<>> THEN Respond(q, 401, "Authorization header required")
    ELSE IF replaceBearer(q.header) = <<>> THEN Respond(q, 401, "Token is required")
    ELSE [q EXCEPT !.pc = "auth", !.token = replaceBearer(q.header), !.authCalls = @ + 1]

CreateHandle(r) ==
    /\ reqs[r].kind = "create"
    /\ reqs[r].pc = "received"
    /\ reqs' = [reqs EXCEPT ![r] = CreateHandleStep(reqs[r])]
    /\ UNCHANGED <<blogs, env, nextId, home, admin>>

\* The mutant: the answer of getUser is not looked at.
CreateAuthStep_Unchecked(q) ==
    LET res == getUser(q.token)
    IN  IF q.title.t # "str"
        THEN Respond([q EXCEPT !.userId = res.user], 500, "Failed to create blog")
        ELSE [q EXCEPT !.pc = "select", !.userId = res.user,
                       !.slug = slugify(q.title.s), !.selectCalls = @ + 1]

\* create-blog, lines 34-55: the answer of getUser, the slug of the title and
\* the call of the prefix query; slugify throws on a title that is no string,
\* and the catch answers 500.
CreateAuthStep(q) ==
    LET res == getUser(q.token)
    IN  IF res.error THEN Respond(q, 401, "Authentication failed")
        ELSE IF res.user = "" THEN Respond(q, 401, "User not found")
        ELSE IF q.title.t # "str"
             THEN Respond([q EXCEPT !.userId = res.user], 500, "Failed to create blog")
        ELSE [q EXCEPT !.pc = "select", !.userId = res.user,
                       !.slug = slugify(q.title.s), !.selectCalls = @ + 1]

CreateAuth(r) ==
    /\ reqs[r].kind = "create"
    /\ reqs[r].pc = "auth"
    /\ reqs' = [reqs EXCEPT ![r] = CreateAuthStep(reqs[r])]
    /\ UNCHANGED <<blogs, env, nextId, home, admin>>

\* create-blog, lines 57-97: the slug made unique among the slugs the query
\* returned, the payload, and the call of insert; marked throws on a content
\* that is no string, and the catch answers 500.
CreateSelectStep(q, existingSlugs) ==
    LET slug == UniqueSlug(q.slug, existingSlugs)
    IN  IF q.content.t # "str"
        THEN Respond([q EXCEPT !.existing = existingSlugs, !.slug = slug],
                     500, "Failed to create blog")
        ELSE
        [q EXCEPT !.pc = "insert", !.existing = existingSlugs, !.slug = slug,
                   !.payload = [title |-> q.title.s, slug |-> slug,
                                content_md |-> q.content.s,
                                content_html |-> marked(q.content.s),
                                tags |-> ProcessTags(q.tags),
                                user_id |-> q.userId, withUserId |-> TRUE],
                   !.insertCalls = @ + 1]

\* The table answers the prefix query.
CreateSelect(r) ==
    /\ reqs[r].kind = "create"
    /\ reqs[r].pc = "select"
    /\ reqs' = [reqs EXCEPT ![r] =
                 CreateSelectStep(reqs[r], DbSelectSlugsLike(blogs, reqs[r].slug))]
    /\ UNCHANGED <<blogs, env, nextId, home, admin>>

\* create-blog, lines 99-141: the table runs the insert; on PGRST204 the handler
\* calls insert again without user_id, on another error it answers 500.
CreateInsert(r) ==
    /\ reqs[r].kind = "create"
    /\ reqs[r].pc = "insert"
    /\ LET q == reqs[r]
           res == DbInsert(blogs, q.payload, Anon, env.db, nextId)
       IN  /\ blogs' = res.table
           /\ nextId' = IF res.error = "" THEN nextId + 1 ELSE nextId
           /\ reqs' = [reqs EXCEPT ![r] =
                        IF res.error = "PGRST204"
                        THEN [q EXCEPT !.pc = "retry", !.dbError = res.error,
                                       !.payload.withUserId = FALSE,
                                       !.insertCalls = @ + 1]
                        ELSE IF res.error # ""
                        THEN Respond([q EXCEPT !.dbError = res.error], 500, "Failed to save blog")
                        ELSE Respond([q EXCEPT !.blog = res.id], 200, "")]
    /\ UNCHANGED <<env, home, admin>>

\* create-blog, lines 105-130: the table runs the insert without user_id.
CreateRetry(r) ==
    /\ reqs[r].kind = "create"
    /\ reqs[r].pc = "retry"
    /\ LET q == reqs[r]
           res == DbInsert(blogs, q.payload, Anon, env.db, nextId)
       IN  /\ blogs' = res.table
           /\ nextId' = IF res.error = "" THEN nextId + 1 ELSE nextId
           /\ reqs' = [reqs EXCEPT ![r] =
                        IF res.error # ""
                        THEN Respond([q EXCEPT !.dbError = res.error], 500, "Failed to save blog")
                        ELSE Respond([q EXCEPT !.blog = res.id], 200, "")]
    /\ UNCHANGED <<env, home, admin>>

\* ------------------------------------------------------------ the admin page

\* refreshBlogs: select * from blogs, into the page's list.
AdminRefresh ==
    /\ admin' = [admin EXCEPT !.blogs = {b.id : b \in blogs}]
    /\ UNCHANGED <<reqs, blogs, env, nextId, home>>

\* deleteBlog(id), confirmed: the delete runs as the signed-in user, returns no
\* error, and the page drops the post from its list.
AdminDelete(id) ==
    /\ id \in admin.blogs
    /\ admin.deletes < MaxDeletes
    /\ blogs' = DbDelete(blogs, id, admin.user, env.db)
    /\ admin' = [admin EXCEPT !.blogs = @ \ {id}, !.alert = "Blog deleted successfully!",
                              !.deletes = @ + 1]
    /\ UNCHANGED <<reqs, env, nextId, home>>

\* ------------------------------------------------------------- the system

TitleAB == <<"a", " ", "B">>
TitleA == <<"a">>
WordAB == <<"a", "B">>
TextAB == <<"#", " ", "a", " ", "B", "\n", "x">>

\* The generate requests the system specification sends.
SysGenInputs ==
    {[word |-> Str(WordAB), header |-> <<Bearer>> \o TokenOf("u1")]}

\* The create-blog requests it sends.
SysCreateInputs ==
    {[title |-> Str(TitleAB), header |-> <<Bearer>> \o TokenOf("u1")],
     [title |-> Str(TitleA), header |-> <<Bearer>> \o TokenOf("u1")],
     [title |-> Undef, header |-> <<>>]}

SysAnswers == {ProviderText(TextAB)}

\* The next request takes the lowest free number.
Fresh(r) == reqs[r].kind = "none" /\ \A j \in 1..(r - 1) : reqs[j].kind # "none"

Init ==
    /\ reqs = [r \in Reqs |-> NoReq]
    /\ env \in [db : DbModes, apiKey : {TRUE}]
    /\ \E n \in {0, MaxSeed} : blogs = SeedTable(n) /\ nextId = n + 1
    /\ home = HomeInit("")
    /\ admin = AdminInit

Next ==
    \/ \E r \in Reqs :
          /\ Fresh(r)
          /\ \E in \in SysGenInputs : HttpGenerate(r, "http", "POST", FALSE, in.word, in.header)
    \/ \E r \in Reqs :
          /\ Fresh(r)
          /\ \E in \in SysCreateInputs :
                HttpCreate(r, "POST", FALSE, in.title, Str(<<"x">>), Undef, in.header)
    \/ \E r \in Reqs : GenHandle(r)
    \/ \E r \in Reqs : GenAuth(r)
    \/ \E r \in Reqs, resp \in SysAnswers : GenCompletion(r, resp)
    \/ \E r \in Reqs : GenInsert(r)
    \/ \E r \in Reqs : CreateHandle(r)
    \/ \E r \in Reqs : CreateAuth(r)
    \/ \E r \in Reqs : CreateSelect(r)
    \/ \E r \in Reqs : CreateInsert(r)
    \/ \E r \in Reqs : CreateRetry(r)
    \/ AdminRefresh
    \/ \E id \in admin.blogs : AdminDelete(id)

Spec == Init /\ [][Next]_vars

\* ------------------------------- /api/generate with optional sign-in

\* A POST, or another method, arrives at the generate handler that serves
\* visitors who are not signed in.
HttpGenOpt(r, method, bodyNull, word, header) ==
    /\ reqs[r].kind = "none"
    /\ reqs' = [reqs EXCEPT ![r] =
                 [NoReq EXCEPT !.kind = "genopt", !.pc = "received",
                               !.origin = "http", !.method = method,
                               !.bodyNull = bodyNull, !.word = word,
                               !.header = header]]
    /\ UNCHANGED <<blogs, env, nextId, home, admin>>

\* Lines 10-49 and 99-106: the method check and the validation; with a header
\* the call of getUser, without one generateBlogWithAI up to its fetch.
GenOptHandleStep(q, e) ==
    IF q.method # "POST" THEN Respond(q, 405, "Method not allowed")
    ELSE IF q.bodyNull THEN Throw(q)
    ELSE LET v == ServerValidate(q.word)
         IN  IF v.reason # "ok" THEN Respond(q, 400, ValidationMessage(v.reason))
             ELSE IF q.header # <<>>
                  THEN [q EXCEPT !.pc = "auth", !.trimmedWord = v.trimmed,
                                 !.token = replaceBearer(q.header),
                                 !.authCalls = @ + 1]
             ELSE IF ~e.apiKey
                  THEN Respond([q EXCEPT !.trimmedWord = v.trimmed], 500, "Failed to generate blog")
             ELSE [q EXCEPT !.pc = "ai", !.trimmedWord = v.trimmed,
                            !.prompt = v.trimmed, !.aiCalls = @ + 1]

GenOptHandle(r) ==
    /\ reqs[r].kind = "genopt"
    /\ reqs[r].pc = "received"
    /\ reqs' = [reqs EXCEPT ![r] = GenOptHandleStep(reqs[r], env)]
    /\ UNCHANGED <<blogs, env, nextId, home, admin>>

\* Lines 49-56 and 99-106: userId is the user getUser resolved, null after an
\* error or without a user; then generateBlogWithAI up to its fetch.
GenOptAuthStep(q, e) ==
    LET res == getUser(q.token)
        userId == IF ~res.error /\ res.user # "" THEN res.user ELSE ""
    IN  IF ~e.apiKey
        THEN Respond([q EXCEPT !.userId = userId], 500, "Failed to generate blog")
        ELSE [q EXCEPT !.pc = "ai", !.userId = userId, !.prompt = q.trimmedWord,
                       !.aiCalls = @ + 1]

GenOptAuth(r) ==
    /\ reqs[r].kind = "genopt"
    /\ reqs[r].pc = "auth"
    /\ reqs' = [reqs EXCEPT ![r] = GenOptAuthStep(reqs[r], env)]
    /\ UNCHANGED <<blogs, env, nextId, home, admin>>

\* Lines 56-85 and 160-171: the provider's answer, the payload with
\* user_id: userId, and the call of insert.
GenOptCompletion(r, resp) ==
    /\ reqs[r].kind = "genopt"
    /\ reqs[r].pc = "ai"
    /\ reqs' = [reqs EXCEPT ![r] = GenCompletionStep(reqs[r], resp)]
    /\ UNCHANGED <<blogs, env, nextId, home, admin>>

\* Lines 72-92: the table runs the insert; the handler answers.
GenOptInsert(r) ==
    /\ reqs[r].kind = "genopt"
    /\ reqs[r].pc = "insert"
    /\ LET q == reqs[r]
           res == DbInsert(blogs, q.payload, Anon, env.db, nextId)
       IN  /\ blogs' = res.table
           /\ nextId' = IF res.error = "" THEN nextId + 1 ELSE nextId
           /\ reqs' = [reqs EXCEPT ![r] =
                        IF res.error # ""
                        THEN Respond([q EXCEPT !.dbError = res.error], 500, "Failed to save blog")
                        ELSE Respond([q EXCEPT !.blog = res.id], 200, "")]
    /\ UNCHANGED <<env, home, admin>>

\* ------------------------------------------------- /api/generate-content

\* A POST, or another method, arrives at /api/generate-content.
HttpContent(r, method, bodyNull, word) ==
    /\ reqs[r].kind = "none"
    /\ reqs' = [reqs EXCEPT ![r] =
                 [NoReq EXCEPT !.kind = "content", !.pc = "received",
                               !.origin = "http", !.method = method,
                               !.bodyNull = bodyNull, !.word = word]]
    /\ UNCHANGED <<blogs, env, nextId, home, admin>>

\* generate-content, lines 277-289 and 309-316: the method check, the presence
\* check of the word, and generateBlogWithAI(word) up to its fetch.
ContentHandleStep(q, e) ==
    IF q.method # "POST" THEN Respond(q, 405, "Method not allowed")
    ELSE IF q.bodyNull THEN Throw(q)
    ELSE IF Falsy(q.word) \/ q.word.t # "str" THEN Respond(q, 400, "Word is required")
    ELSE IF ~e.apiKey THEN Respond(q, 500, "Failed to generate content")
    ELSE [q EXCEPT !.pc = "ai", !.prompt = q.word.s, !.aiCalls = @ + 1]

ContentHandle(r) ==
    /\ reqs[r].kind = "content"
    /\ reqs[r].pc = "received"
    /\ reqs' = [reqs EXCEPT ![r] = ContentHandleStep(reqs[r], env)]
    /\ UNCHANGED <<blogs, env, nextId, home, admin>>

\* generate-content, lines 289-306 and 367-378: the provider's answer, then the
\* 200 response, whose title, content and tags are kept in the fields of these
\* names; nothing is stored.
ContentCompletionStep(q, resp) ==
    IF ~resp.ok \/ ~resp.hasMessage \/ ~resp.hasContent
    THEN Respond([q EXCEPT !.answer = AnswerKind(resp)], 500, "Failed to generate content")
    ELSE Respond([q EXCEPT !.answer = AnswerKind(resp),
                           !.title = Str(ExtractTitle(resp.content, q.word.s)),
                           !.content = Str(resp.content),
                           !.tags = Arr(<<toLowerCase(q.word.s), <<"ai-generated">>>>)],
                 200, "")

\* The mutant: the endpoint stores what it generated, as generate does.
ContentCompletion_Storing(r, resp) ==
    /\ reqs[r].kind = "content"
    /\ reqs[r].pc = "ai"
    /\ LET q == ContentCompletionStep(reqs[r], resp)
           p == GenPayload([reqs[r] EXCEPT !.trimmedWord = reqs[r].word.s], resp.content)
           res == DbInsert(blogs, p, Anon, "open", nextId)
       IN  /\ reqs' = [reqs EXCEPT ![r] = q]
           /\ blogs' = IF q.status = 200 THEN res.table ELSE blogs
           /\ nextId' = IF q.status = 200 /\ res.error = "" THEN nextId + 1 ELSE nextId
    /\ UNCHANGED <<env, home, admin>>

ContentCompletion(r, resp) ==
    /\ reqs[r].kind = "content"
    /\ reqs[r].pc = "ai"
    /\ reqs' = [reqs EXCEPT ![r] = ContentCompletionStep(reqs[r], resp)]
    /\ UNCHANGED <<blogs, env, nextId, home, admin>>

\* ------------------------------------------- one request to any API route

\* The words posted to the routes, as strings.
ApiWords ==
    {<<>>, <<" ">>, <<"a", "B">>, <<" ", "a", "B", " ">>, <<"a", " ", "b">>, <<"B">>,
     <<"a", "1">>, <<"a", "\t", "B">>, Rep("a", WordMax), Rep("a", WordMax + 1)}

ApiWordValues == {Undef, Num(7)} \cup {Str(w) : w \in ApiWords}

\* Bodies of create-blog: titles and contents that are missing, empty, no
\* string, or text; tags that are missing, a string or an array.
ApiTitles == {Undef, Str(<<>>), Num(7), Str(TitleAB), Str(TitleA), Str(<<"!">>)}
ApiContents == {Undef, Num(7), Str(<<"x">>)}
ApiTags ==
    {Undef, Str(<<"t", ",", " ", ",", "u">>), Arr(<<<<"t">>>>),
     Arr(<<<<"t">>, <<" ">>, <<"u">>>>)}

InitApi ==
    /\ reqs = [r \in Reqs |-> NoReq]
    /\ env \in [db : DbModes, apiKey : BOOLEAN]
    /\ \E n \in {0, MaxSeed} : blogs = SeedTable(n) /\ nextId = n + 1
    /\ home = HomeInit("")
    /\ admin = AdminInit

NextApi ==
    \/ /\ reqs[1].kind = "none"
       /\ \E w \in ApiWordValues, h \in Headers : HttpGenerate(1, "http", "POST", FALSE, w, h)
    \/ /\ reqs[1].kind = "none"
       /\ \E m \in {"GET", "POST"} : HttpGenerate(1, "http", m, m = "POST", Undef, <<>>)
    \/ /\ reqs[1].kind = "none"
       /\ \E w \in ApiWordValues, h \in Headers : HttpGenOpt(1, "POST", FALSE, w, h)
    \/ /\ reqs[1].kind = "none"
       /\ \E m \in {"GET", "POST"} : HttpGenOpt(1, m, m = "POST", Undef, <<>>)
    \/ /\ reqs[1].kind = "none"
       /\ \E w \in ApiWordValues : HttpContent(1, "POST", FALSE, w)
    \/ /\ reqs[1].kind = "none"
       /\ \E m \in {"GET", "POST"} : HttpContent(1, m, m = "POST", Undef)
    \/ /\ reqs[1].kind = "none"
       /\ \E t \in ApiTitles, c \in ApiContents, g \in ApiTags, h \in Headers :
              HttpCreate(1, "POST", FALSE, t, c, g, h)
    \/ /\ reqs[1].kind = "none"
       /\ \E m \in {"GET", "POST"} : HttpCreate(1, m, m = "POST", Undef, Undef, Undef, <<>>)
    \/ GenHandle(1)
    \/ GenAuth(1)
    \/ \E resp \in ProviderAnswers : GenCompletion(1, resp)
    \/ GenInsert(1)
    \/ GenOptHandle(1)
    \/ GenOptAuth(1)
    \/ \E resp \in ProviderAnswers : GenOptCompletion(1, resp)
    \/ GenOptInsert(1)
    \/ ContentHandle(1)
    \/ \E resp \in ProviderAnswers : ContentCompletion(1, resp)
    \/ CreateHandle(1)
    \/ CreateAuth(1)
    \/ CreateSelect(1)
    \/ CreateInsert(1)
    \/ CreateRetry(1)

SpecApi == InitApi /\ [][NextApi]_vars

\* ------------------------------- concurrent requests to /api/generate

\* The words of concurrent generate requests: no two of them the same string.
PairWords == {<<"a", "B">>, <<"A", "b">>, <<"b", "a">>, <<"c", "c">>}

TextC == <<"#", " ", "c", "\n", "x">>

\* What the provider answers them: the same text, another text, an error.
PairAnswers == {ProviderText(TextAB), ProviderText(TextC), ProviderError}

InitPair ==
    /\ reqs = [r \in Reqs |-> NoReq]
    /\ env \in [db : DbModes, apiKey : {TRUE}]
    /\ \E n \in {0, MaxSeed} : blogs = SeedTable(n) /\ nextId = n + 1
    /\ home = HomeInit("")
    /\ admin = AdminInit

NextPair ==
    \/ \E r \in Reqs :
          /\ Fresh(r)
          /\ \E w \in PairWords :
                /\ \A j \in 1..(r - 1) : reqs[j].word # Str(w)
                /\ HttpGenerate(r, "http", "POST", FALSE, Str(w), <<Bearer>> \o TokenOf("u1"))
    \/ \E r \in Reqs : GenHandle(r)
    \/ \E r \in Reqs : GenAuth(r)
    \/ \E r \in Reqs, resp \in PairAnswers : GenCompletion(r, resp)
    \/ \E r \in Reqs : GenInsert(r)

SpecPair == InitPair /\ [][NextPair]_vars

\* ------------------------------------------------ properties of one request

\* A generate request whose handler has run its first step on a body that holds
\* the string s as its word.
Handled(q) ==
    q.kind = "generate" /\ q.pc # "received" /\ q.method = "POST" /\ ~q.bodyNull

HandledString(q) == Handled(q) /\ q.word.t = "str"

\* ^[A-Za-z]{2,20}$
MatchesWordPattern(t) == LettersOnly(t) /\ Len(t) >= WordMin /\ Len(t) <= WordMax

Rejected(q, reason) ==
    q.pc = "done" /\ q.status = 400 /\ q.message = ValidationMessage(reason)

\* C1: a generate request whose word fails validation (missing, not a string,
\* or a string whose trimmed form is not 2 to 20 letters) is answered 400 and
\* has made no call to the identity service, the completion provider or the table.
C1_InvalidWordNoExternalCall ==
    \A r \in Reqs :
        LET q == reqs[r]
        IN  (Handled(q) /\ (q.word.t # "str" \/ ~MatchesWordPattern(trim(q.word.s))))
            => /\ q.pc = "done"
               /\ q.status = 400
               /\ q.authCalls = 0
               /\ q.aiCalls = 0
               /\ q.insertCalls = 0

\* C1's case: a two-word request that carries a valid credential is answered 400.
C1_Witness ==
    \E r \in Reqs :
        /\ reqs[r].word = Str(<<"a", " ", "B">>)
        /\ reqs[r].header = <<Bearer>> \o TokenOf("u1")
        /\ reqs[r].status = 400

\* The credential of a request is missing, empty or refused by the identity service.
BadCredential(h) ==
    \/ h = <<>>
    \/ replaceBearer(h) = <<>>
    \/ getUser(replaceBearer(h)).error
    \/ getUser(replaceBearer(h)).user = ""

\* C2: a generate request with a valid word and a missing, empty or invalid
\* bearer credential is answered 401 (once the identity service has answered),
\* and makes no completion call and no insert.
C2_BadCredential401 ==
    \A r \in Reqs :
        LET q == reqs[r]
        IN  (HandledString(q) /\ MatchesWordPattern(trim(q.word.s)) /\ BadCredential(q.header))
            => /\ q.aiCalls = 0
               /\ q.insertCalls = 0
               /\ q.blog = 0
               /\ \/ q.pc = "auth"
                  \/ q.pc = "done" /\ q.status = 401

\* C2's case: a valid word with a token the identity service refused, answered 401.
C2_Witness ==
    \E r \in Reqs :
        /\ reqs[r].word = Str(<<"a", "B">>)
        /\ reqs[r].header = <<Bearer, "bad">>
        /\ reqs[r].authCalls = 1
        /\ reqs[r].status = 401

\* The validation chain's checks in the order of the claim.
CheckOrder == <<"empty", "multi", "nonletter", "short", "long">>

Fails(k, t) ==
    CASE k = 1 -> CheckEmpty(t)
      [] k = 2 -> CheckMulti(t)
      [] k = 3 -> CheckNonLetter(t)
      [] k = 4 -> CheckShort(t)
      [] OTHER -> CheckLong(t)

\* The request was rejected with the reason of the first check its trimmed word fails.
FirstFailureReported(q) ==
    LET t == trim(q.word.s)
    IN  (\E k \in 1..Len(CheckOrder) : Fails(k, t))
        => \E k \in 1..Len(CheckOrder) :
              /\ Fails(k, t)
              /\ \A j \in 1..(k - 1) : ~Fails(j, t)
              /\ Rejected(q, CheckOrder[k])

\* C3 as stated: for every input string the response names the first failing
\* check of the chain empty, multi-word, non-letter, too short, too long.
C3_Original ==
    \A r \in Reqs : HandledString(reqs[r]) => FirstFailureReported(reqs[r])

\* C3, amended: the same for every non-empty input string; the empty string
\* never reaches the chain and is answered "Word is required".
C3_FirstFailingCheck ==
    \A r \in Reqs :
        LET q == reqs[r]
        IN  HandledString(q)
            => IF q.word.s = <<>> THEN Rejected(q, "required")
               ELSE FirstFailureReported(q)

\* C3's case: "1 " fails the letter check and the length check; the letter
\* check is reported.
C3_Witness ==
    \E r \in Reqs :
        /\ reqs[r].word = Str(<<"1", " ">>)
        /\ Rejected(reqs[r], "nonletter")

\* C4: a string whose trimmed form is 2 to 20 letters passes validation and the
\* handler goes on with the trimmed word, its casing unchanged (the prompt of the
\* completion call holds it); a single letter is rejected as too short and more
\* than 20 letters as too long.
C4_PatternAccepted ==
    \A r \in Reqs :
        LET q == reqs[r]
            t == trim(q.word.s)
        IN  HandledString(q)
            => /\ MatchesWordPattern(t)
                  => /\ q.status # 400
                     /\ q.trimmedWord = t
                     /\ q.aiCalls > 0 => q.prompt = t
               /\ (LettersOnly(t) /\ Len(t) = 1) => Rejected(q, "short")
               /\ (LettersOnly(t) /\ Len(t) > WordMax) => Rejected(q, "long")

\* C4's case: a word of exactly 20 letters with a capital, sent to the provider
\* as it was typed.
C4_Witness ==
    \E r \in Reqs :
        /\ reqs[r].word = Str(<<"B">> \o Rep("a", WordMax - 1))
        /\ reqs[r].pc = "ai"
        /\ reqs[r].prompt = <<"B">> \o Rep("a", WordMax - 1)

\* White space inside the trimmed string.
InteriorWs(t) == \E i \in 1..Len(t) : IsWs(t[i])

\* C5 as stated, in its weakest reading: every input string with white space
\* inside its trimmed form is rejected with the multi-word reason.
C5_Original ==
    \A r \in Reqs :
        LET q == reqs[r]
        IN  (HandledString(q) /\ InteriorWs(trim(q.word.s))) => Rejected(q, "multi")

\* C5, amended: every input string whose trimmed form holds a space character is
\* rejected with the multi-word reason, whatever its other characters; white
\* space inside it that is no space character is rejected with the non-letter reason.
C5_SpaceIsMultiWord ==
    \A r \in Reqs :
        LET q == reqs[r]
            t == trim(q.word.s)
        IN  HandledString(q)
            => /\ includes(t, " ") => Rejected(q, "multi")
               /\ (InteriorWs(t) /\ ~includes(t, " ")) => Rejected(q, "nonletter")

\* C5's case: a word with a digit and a space inside is reported as multi-word.
C5_Witness ==
    \E r \in Reqs :
        /\ reqs[r].word = Str(<<"1", " ", "a">>)
        /\ Rejected(reqs[r], "multi")

\* C6 as stated: the home page never sends /api/generate a word that the
\* server rejects with 400.
C6_HomeNeverRejected ==
    \A r \in Reqs :
        (reqs[r].origin \in {"home", "home-done"} /\ reqs[r].pc = "done")
            => reqs[r].status # 400

\* --------------------------------------------- properties of the slug protocol

\* A create-blog request that both signed in and got its slug from the lookup.
Looked(q) == q.kind = "create" /\ q.pc \in {"insert", "retry", "done"} /\ q.selectCalls = 1

\* A create-blog request that ended after its insert ran.
CreateEnded(q) == Looked(q) /\ q.pc = "done"

Suffixed(base, k) == base \o <<"-">> \o NumToStr(k)

\* The smallest k >= 1 for which base-k is not in the set.
SmallestFree(base, existingSlugs) ==
    CHOOSE k \in 1..(Cardinality(existingSlugs) + 1) :
        /\ Suffixed(base, k) \notin existingSlugs
        /\ \A j \in 1..(k - 1) : Suffixed(base, j) \in existingSlugs

\* C7 as stated: two create-blog requests with the same title, both signed in,
\* on a table that held no post before them and lost none, both end with 200,
\* one stored under the base slug and the other under base-1, and neither is
\* answered with a unique-constraint failure.
C7_BothConcurrentCreatesSucceed ==
    \A r1, r2 \in Reqs :
        LET q1 == reqs[r1]
            q2 == reqs[r2]
            base == slugify(q1.title.s)
        IN  (/\ r1 # r2
             /\ CreateEnded(q1) /\ CreateEnded(q2)
             /\ q1.title = q2.title
             /\ env.db = "open"
             /\ Cardinality(blogs) = nextId - 1
             /\ \A b \in blogs : b.id \in {q1.blog, q2.blog})
            => /\ q1.status = 200 /\ q2.status = 200
               /\ q1.dbError = "" /\ q2.dbError = ""
               /\ {b.slug : b \in blogs} = {base, Suffixed(base, 1)}

\* C8: in create-blog the slug chosen is the base slug of the title when the
\* prefix query did not return it, and otherwise base-k for the smallest k >= 1
\* that the query did not return; it is never one of the returned slugs, and two
\* requests with the same title and the same returned set have the same slug.
C8_SlugIsFirstFree ==
    \A r \in Reqs :
        LET q == reqs[r]
            base == slugify(q.title.s)
        IN  Looked(q)
            => /\ q.slug = IF base \notin q.existing THEN base
                           ELSE Suffixed(base, SmallestFree(base, q.existing))
               /\ q.slug \notin q.existing
               /\ \A r2 \in Reqs :
                      (Looked(reqs[r2]) /\ reqs[r2].title = q.title
                                        /\ reqs[r2].existing = q.existing)
                          => reqs[r2].slug = q.slug

\* C8's case: the query returned a-b and a-b-1 for the title "a B", and the
\* request took a-b-2.
C8_Witness ==
    \E r \in Reqs :
        /\ Looked(reqs[r])
        /\ reqs[r].title = Str(TitleAB)
        /\ reqs[r].existing = {SeedBase, Suffixed(SeedBase, 1)}
        /\ reqs[r].slug = Suffixed(SeedBase, 2)

\* C9 as stated: a generate request whose insert ran while another post had the
\* slug derived from its title (q.slug) is answered 200, and its post is stored
\* under that slug with a numeric suffix.
C9_GenerateCollisionSucceeds ==
    \A r \in Reqs :
        LET q == reqs[r]
            base == q.slug
        IN  (/\ q.kind = "generate" /\ q.pc = "done" /\ q.insertCalls = 1
             /\ env.db = "open"
             /\ \E b \in blogs : b.slug = base /\ b.id # q.blog)
            => /\ q.status = 200
               /\ \E b \in blogs, k \in 1..nextId :
                      b.id = q.blog /\ b.slug = Suffixed(base, k)

\* C10: in every state of the table, no two stored posts have the same slug.
C10_SlugsUnique ==
    \A b1, b2 \in blogs : b1.slug = b2.slug => b1 = b2

\* C10's case: the table holds several posts and has refused an insert of a
\* slug that was taken, after a post was deleted.
C10_Witness ==
    /\ Cardinality(blogs) >= 2
    /\ Cardinality(blogs) < nextId - 1
    /\ \E r \in Reqs : reqs[r].pc = "done" /\ reqs[r].dbError = "23505"

\* ------------------------------------------- properties of concurrent requests

\* The rows the table held before the requests stored theirs.
RowsBefore == {b \in blogs : \A r \in Reqs : b.id # reqs[r].blog}

\* C11 as stated: among concurrent generate requests for different words, each
\* request that got a text from the provider and ran its insert has the status
\* it has when it runs alone on the table as it was before them: 200, with its
\* row stored, unless that table already held its slug.
C11_GenerateIndependent ==
    \A r \in Reqs :
        LET q == reqs[r]
        IN  (/\ q.kind = "generate" /\ q.pc = "done" /\ q.insertCalls = 1
             /\ env.db = "open"
             /\ \A r2 \in Reqs \ {r} : reqs[r2].word # q.word)
            => IF \E b \in RowsBefore : b.slug = q.slug
               THEN q.status = 500
               ELSE q.status = 200 /\ \E b \in blogs : b.id = q.blog /\ b.slug = q.slug

\* --------------------------------------------- properties of the API routes

\* The request that stored row b.
StoredBy(q, b) == q.pc = "done" /\ q.status = 200 /\ q.blog = b.id /\ q.kind # "content"

\* C12 as stated: a row stored by a request for which the authentication gate
\* resolved an identity has that identity as its user_id, and a row without
\* user_id was stored by a request of the optional-auth generate path that
\* presented no valid credential.
C12_OwnerIsResolvedIdentity ==
    \A r \in Reqs : \A b \in blogs :
        LET q == reqs[r]
        IN  StoredBy(q, b)
            => /\ q.userId # "" => b.user_id = q.userId
               /\ b.user_id = "" => (q.kind = "genopt" /\ q.userId = "")

\* C13 as stated: with the insert policy in force, a generate request with a
\* valid word and a valid credential that got a text from the provider and whose
\* slug no earlier row had ends with 200 and exactly one new row, which carries
\* its slug and is owned by its user.
C13_PolicyAdmitsOwnRow ==
    \A r \in Reqs :
        LET q == reqs[r]
        IN  (/\ q.kind = "generate" /\ q.pc = "done" /\ q.insertCalls = 1
             /\ q.userId \in Users
             /\ env.db = "rls"
             /\ ~\E b \in RowsBefore : b.slug = q.slug)
            => /\ q.status = 200
               /\ \E b \in blogs : b.id = q.blog /\ b.slug = q.slug /\ b.user_id = q.userId
               /\ Cardinality(blogs) = Cardinality(RowsBefore) + 1

\* ------------------------------------------------- properties of ownership

CreateHandled(q) ==
    q.kind = "create" /\ q.pc # "received" /\ q.method = "POST" /\ ~q.bodyNull

\* C15 as stated: a create-blog request without a valid bearer credential is
\* answered 401 (once the identity service has answered) and inserts no row,
\* whatever its body holds.
C15_Original ==
    \A r \in Reqs :
        LET q == reqs[r]
        IN  (CreateHandled(q) /\ BadCredential(q.header))
            => /\ q.insertCalls = 0
               /\ q.blog = 0
               /\ \/ q.pc = "auth"
                  \/ q.pc = "done" /\ q.status = 401

\* C15, amended: a create-blog request without a valid bearer credential makes
\* no lookup and no insert and stores no row; it is answered 401 when its body
\* has a title and a content, and 400 when one of them is missing or empty.
C15_NoCredentialNoRow ==
    \A r \in Reqs :
        LET q == reqs[r]
        IN  (CreateHandled(q) /\ BadCredential(q.header))
            => /\ q.selectCalls = 0
               /\ q.insertCalls = 0
               /\ q.blog = 0
               /\ IF Falsy(q.title) \/ Falsy(q.content)
                  THEN q.pc = "done" /\ q.status = 400
                  ELSE \/ q.pc = "auth"
                       \/ q.pc = "done" /\ q.status = 401

\* C15's case: a full body with a token for which the identity service resolves
\* no user is answered 401.
C15_Witness ==
    \E r \in Reqs :
        /\ reqs[r].kind = "create"
        /\ reqs[r].title = Str(TitleAB)
        /\ reqs[r].content = Str(<<"x">>)
        /\ reqs[r].header = <<Bearer, "ghost">>
        /\ reqs[r].status = 401
        /\ reqs[r].message = "User not found"

\* ------------------------------------- properties of the completion calls

\* C16 as stated: every request that has sent a request to the completion
\* provider has a word that passed the word validator, and the word in its
\* prompt is that validated word; for generate, optional-auth generate and
\* generate-content alike.
C16_PromptWordValidated ==
    \A r \in Reqs :
        LET q == reqs[r]
        IN  q.aiCalls > 0
            => /\ q.word.t = "str"
               /\ ServerValidate(q.word).reason = "ok"
               /\ q.prompt = ServerValidate(q.word).trimmed

\* C17: a generate request that the provider answered with a non-success status,
\* or with a success without choices[0].message, has ended with a 500 response,
\* has called insert never and stored no row, and has sent the provider one
\* request only.
C17_ProviderFailure500 ==
    \A r \in Reqs :
        LET q == reqs[r]
        IN  (q.kind \in {"generate", "genopt"} /\ q.answer \in {"error", "malformed"})
            => /\ q.pc = "done"
               /\ q.status = 500
               /\ q.insertCalls = 0
               /\ q.blog = 0
               /\ q.aiCalls = 1
               /\ blogs = RowsBefore

\* C17's case: the provider answered a signed-in user's generate request with
\* a success that has no message; the request ended with 500.
C17_Witness ==
    \E r \in Reqs :
        /\ reqs[r].kind = "generate"
        /\ reqs[r].userId = "u1"
        /\ reqs[r].answer = "malformed"
        /\ reqs[r].status = 500
        /\ reqs[r].message = "Failed to generate blog"

\* C18: without a completion API key no request sends anything to the provider;
\* a generate request stores no row, and one that passed validation and the
\* authentication gate, and so reached generateBlogWithAI, has ended with 500.
C18_NoKeyFailsFast ==
    \A r \in Reqs :
        LET q == reqs[r]
        IN  (~env.apiKey /\ q.kind = "generate")
            => /\ q.aiCalls = 0
               /\ q.insertCalls = 0
               /\ q.blog = 0
               /\ blogs = RowsBefore
               /\ q.status # 200
               /\ (q.userId # "" /\ q.pc # "auth")
                     => (q.pc = "done" /\ q.status = 500)

\* C18's case: a signed-in user's valid word, no API key, answered 500.
C18_Witness ==
    \E r \in Reqs :
        /\ ~env.apiKey
        /\ reqs[r].kind = "generate"
        /\ reqs[r].trimmedWord = <<"a", "B">>
        /\ reqs[r].userId = "u1"
        /\ reqs[r].status = 500
        /\ reqs[r].message = "Failed to generate blog"

\* -------------------------------------- properties of the request boundary

\* C19 as stated: no exception escapes a generate or create-blog handler; a
\* request whose handler has ended has one response, with a status and, when
\* it is no success, a message.
C19_AllFailuresCaught ==
    \A r \in Reqs :
        LET q == reqs[r]
        IN  q.kind \in {"generate", "create"}
            => /\ q.pc # "threw"
               /\ q.pc = "done" => (q.status # 0 /\ (q.status # 200 => q.message # ""))

\* C20 as stated: a generate or create-blog request sends the provider at most
\* one completion request and makes at most one insert attempt on blogs.
C20_NoAutomaticRetry ==
    \A r \in Reqs :
        LET q == reqs[r]
        IN  q.kind \in {"generate", "create"}
            => (q.aiCalls <= 1 /\ q.insertCalls <= 1)

\* ------------------------------------------------ the completion call's end

\* One request to /api/generate whose handler is scheduled fairly: the steps
\* the handler takes by itself (validation, the identity service's answer, the
\* table's answer) happen once they can. The completion provider is not the
\* program's: nothing makes it answer, and generate.ts passes fetch no signal
\* and sets no timer, so only an answer ends the wait.
SpecGenLive ==
    /\ InitGen
    /\ [][NextGen]_vars
    /\ WF_vars(GenHandle(1))
    /\ WF_vars(GenAuth(1))
    /\ WF_vars(GenInsert(1))

\* C21 as stated: a generate request that waits for the completion provider
\* eventually has a response, whether or not the provider ever answers.
C21_CompletionCallBounded ==
    (reqs[1].kind = "generate" /\ reqs[1].pc = "ai") ~> (reqs[1].pc = "done")

\* ------------------------------------------------ what a stored post holds

\* The first line of the text that has a character other than white space;
\* the empty line when there is none.
C22_FirstNonBlankLine(text) ==
    LET lines == split(text)
        idx == {i \in 1..Len(lines) : \E j \in 1..Len(lines[i]) : ~IsWs(lines[i][j])}
    IN  IF idx = {} THEN <<>>
        ELSE lines[CHOOSE i \in idx : \A k \in idx : i <= k]

\* The line without the '#' markers it starts with and the white space that
\* follows them.
C22_WithoutMarkers(line) ==
    LET n == Len(line)
        hashes == CHOOSE k \in 0..n :
                      /\ \A j \in 1..k : line[j] = "#"
                      /\ k < n => line[k + 1] # "#"
        rest == {k \in (hashes + 1)..n : ~IsWs(line[k])}
    IN  IF hashes = 0 THEN line
        ELSE IF rest = {} THEN <<>>
        ELSE SubSeq(line, CHOOSE k \in rest : \A m \in rest : k <= m, n)

\* C22: a post stored by the generate pipeline has a non-empty title: the first
\* non-blank line of the stored text without its leading '#' markers and the
\* white space after them, or "Blog about {word}" when nothing is left of it.
C22_GeneratedTitle ==
    \A r \in Reqs : \A b \in blogs :
        (reqs[r].kind \in {"generate", "genopt"} /\ StoredBy(reqs[r], b))
        => LET line == C22_WithoutMarkers(C22_FirstNonBlankLine(b.content_md))
           IN  /\ b.title # <<>>
               /\ b.title = IF line = <<>> THEN BlogAbout \o reqs[r].trimmedWord
                            ELSE line

\* C22's case: the text starts with a blank line and a heading with two
\* markers; the post is stored with the heading's words as its title.
C22_Witness ==
    \E r \in Reqs : \E b \in blogs :
        /\ reqs[r].kind = "generate"
        /\ StoredBy(reqs[r], b)
        /\ b.content_md = <<"\n", "#", "#", " ", "a">>
        /\ b.title = <<"a">>

\* C23: a post stored by the generate pipeline has exactly two tags, the
\* request's word trimmed and in lower case, then "ai-generated".
C23_GeneratedTags ==
    \A r \in Reqs : \A b \in blogs :
        (reqs[r].kind \in {"generate", "genopt"} /\ StoredBy(reqs[r], b))
        => /\ reqs[r].word.t = "str"
           /\ Len(b.tags) = 2
           /\ Len(b.tags[1]) = Len(trim(reqs[r].word.s))
           /\ \A i \in 1..Len(b.tags[1]) :
                  b.tags[1][i] = ToLowerChar(trim(reqs[r].word.s)[i])
           /\ b.tags[2] = <<"ai-generated">>

\* C23's case: the word " aB " is sent and the post is stored with the tags
\* "ab" and "ai-generated".
C23_Witness ==
    \E r \in Reqs : \E b \in blogs :
        /\ reqs[r].kind = "generate"
        /\ StoredBy(reqs[r], b)
        /\ reqs[r].word = Str(<<" ", "a", "B", " ">>)
        /\ b.tags = <<<<"a", "b">>, <<"ai-generated">>>>

\* The entries trimmed, the empty ones dropped.
C24_Normalized(entries) ==
    SelectSeq([i \in 1..Len(entries) |-> trim(entries[i])], LAMBDA e : e # <<>>)

\* The entries of the tags a create-blog request carries: those of a sequence,
\* those between the commas of a string, none when tags are absent.
C24_Entries(tags) ==
    IF tags.t = "arr" THEN tags.a
    ELSE IF tags.t = "str" THEN splitOn(tags.s, ",")
    ELSE <<>>

\* C24 as stated: a post stored by create-blog has the normalized entries of
\* the request's tags, whichever form they came in, followed by "manual".
C24_TagsNormalizedAlike ==
    \A r \in Reqs : \A b \in blogs :
        (reqs[r].kind = "create" /\ StoredBy(reqs[r], b))
        => b.tags = C24_Normalized(C24_Entries(reqs[r].tags)) \o <<<<"manual">>>>

\* C25: every row of blogs holds as content_html the rendering of the
\* content_md of the same row, and a row stored by create-blog holds the
\* content that was posted.
C25_HtmlIsRenderedMarkdown ==
    /\ \A b \in blogs : b.content_html = marked(b.content_md)
    /\ \A r \in Reqs : \A b \in blogs :
           (reqs[r].kind = "create" /\ StoredBy(reqs[r], b))
           => (reqs[r].content.t = "str" /\ b.content_md = reqs[r].content.s)

\* C25's case: generate stored a text of a heading and a paragraph with the
\* HTML of both.
C25_Witness ==
    \E r \in Reqs : \E b \in blogs :
        /\ reqs[r].kind = "generate"
        /\ StoredBy(reqs[r], b)
        /\ b.content_md = <<"#", " ", "a", " ", "B", "\n", "x">>
        /\ b.content_html = <<"<h>", "a", " ", "B", "</h>", "<p>", "x", "</p>">>

\* ------------------------------------------------------ the blog post page

\* select * from blogs where slug = $1, .single(): the public read policy
\* admits every row; anything but exactly one row is an error.
DbSelectBySlug(table, slug) ==
    LET rows == {b \in table : b.slug = slug}
    IN  IF Cardinality(rows) = 1
        THEN [error |-> FALSE, row |-> CHOOSE b \in rows : TRUE]
        ELSE [error |-> TRUE, row |-> StoredRow(NoPayload, 0)]

\* The page /blog/[slug] is asked for.
HttpBlogPage(r, slug) ==
    /\ reqs[r].kind = "none"
    /\ reqs' = [reqs EXCEPT ![r] =
                 [NoReq EXCEPT !.kind = "page", !.pc = "received",
                               !.origin = "http", !.method = "GET", !.slug = slug]]
    /\ UNCHANGED <<blogs, env, nextId, home, admin>>

\* getStaticProps: notFound for a missing slug or a failed read (404), the row
\* as the page's props otherwise (200).
GetStaticPropsStep(q, table) ==
    LET res == DbSelectBySlug(table, q.slug)
    IN  IF q.slug = <<>> \/ res.error
        THEN [q EXCEPT !.pc = "done", !.status = 404]
        ELSE [q EXCEPT !.pc = "done", !.status = 200, !.blog = res.row.id,
                       !.payload = [title |-> res.row.title, slug |-> res.row.slug,
                                    content_md |-> res.row.content_md,
                                    content_html |-> res.row.content_html,
                                    tags |-> res.row.tags,
                                    user_id |-> res.row.user_id,
                                    withUserId |-> res.row.user_id # ""]]

GetStaticProps(r) ==
    /\ reqs[r].kind = "page"
    /\ reqs[r].pc = "received"
    /\ reqs' = [reqs EXCEPT ![r] = GetStaticPropsStep(reqs[r], blogs)]
    /\ UNCHANGED <<blogs, env, nextId, home, admin>>

\* The titles posted to create-blog while the pages are read: words, and a
\* title of one character that the slug transform removes.
ReadTitles == {Str(TitleAB), Str(<<"!">>)}

\* The slugs a reader may ask for: one of a row, one no row has, none.
ReadSlugs == {b.slug : b \in blogs} \cup {<<"z">>, <<>>}

\* One create-blog request, one reader of a blog page, the admin page.
InitRead ==
    /\ reqs = [r \in Reqs |-> NoReq]
    /\ env \in [db : DbModes, apiKey : {TRUE}]
    /\ \E n \in {0, MaxSeed} : blogs = SeedTable(n) /\ nextId = n + 1
    /\ home = HomeInit("")
    /\ admin = AdminInit

NextRead ==
    \/ /\ reqs[1].kind = "none"
       /\ \E t \in ReadTitles, u \in Users :
              HttpCreate(1, "POST", FALSE, t, Str(<<"x">>), Undef, <<Bearer>> \o TokenOf(u))
    \/ CreateHandle(1)
    \/ CreateAuth(1)
    \/ CreateSelect(1)
    \/ CreateInsert(1)
    \/ CreateRetry(1)
    \/ /\ reqs[2].kind = "none"
       /\ \E s \in ReadSlugs : HttpBlogPage(2, s)
    \/ GetStaticProps(2)
    \/ AdminRefresh
    \/ \E id \in admin.blogs : AdminDelete(id)

SpecRead == InitRead /\ [][NextRead]_vars

\* C26 as stated: getStaticProps answers with the row that has the slug asked
\* for, with its content_md and content_html as they are stored, whenever the
\* table holds such a row, and with not-found when it holds none.
C26_GetBySlugReturnsStored ==
    [][\A r \in Reqs :
          (reqs[r].kind = "page" /\ reqs[r].pc = "received" /\ reqs'[r].pc = "done")
          => LET rows == {b \in blogs : b.slug = reqs[r].slug}
             IN  IF rows = {} THEN reqs'[r].status = 404
                 ELSE \E b \in rows :
                          /\ reqs'[r].status = 200
                          /\ reqs'[r].blog = b.id
                          /\ reqs'[r].payload.content_md = b.content_md
                          /\ reqs'[r].payload.content_html = b.content_html]_vars

\* C27: no step of a generate-content request changes the blogs table: from
\* the arrival of the request to its response, whatever the outcome, the
\* table and its id counter stay as they are.
C27_ContentNeverPersists ==
    [][(\E r \in Reqs : reqs'[r].kind = "content")
       => (blogs' = blogs /\ nextId' = nextId)]_vars

\* C27's case: generate-content answered 200 with a generated text, and the
\* table holds no row but those it started with.
C27_Witness ==
    \E r \in Reqs :
        /\ reqs[r].kind = "content"
        /\ reqs[r].pc = "done"
        /\ reqs[r].status = 200
        /\ reqs[r].content = Str(<<"#", " ", "a", " ", "B", "\n", "x">>)
        /\ blogs = SeedTable(Cardinality(blogs))

\* ---------------------------------------------- properties of the admin page

\* C28 as stated: every post in the admin page's list belongs to the signed-in
\* user.
C28_DashboardShowsOwnPostsOnly ==
    \A id \in admin.blogs : \A b \in blogs : b.id = id => b.user_id = admin.user

\* C29 as stated: when deleteBlog reports success and drops a post from the
\* page's list, the table no longer holds a row with that id.
C29_ReportedDeleteRemovedRow ==
    [][(admin'.deletes = admin.deletes + 1 /\ admin'.alert = "Blog deleted successfully!")
       => \A id \in admin.blogs \ admin'.blogs : \A b \in blogs' : b.id # id]_vars

\* ------------------------------------------------- properties of the slug

\* C30 as stated: a post stored by a generate or create-blog request has a
\* slug that is not empty.
C30_StoredSlugNonEmpty ==
    \A r \in Reqs : \A b \in blogs :
        (reqs[r].kind \in {"generate", "genopt", "create"} /\ StoredBy(reqs[r], b))
        => b.slug # <<>>

====
